---- MODULE Spec2Model ----
(***************************************************************************)
(* Model of the numeric reduction utilities of NumericFunctionLink         *)
(* (get_value, get_vector, the unary and the binary apply_func), of the    *)
(* NumericFunctionLink constructor check (init) and of the three           *)
(* ForeignAST constructors.                                                *)
(*                                                                         *)
(* Values are records [type, vec, out, name]: type is the category tag,    *)
(* vec the numeric payload of a NumberNode / FloatValue, out the outgoing  *)
(* set of a link, name the name of a node.  Structural equality of values  *)
(* (operator== of Value) is equality of these records.                     *)
(***************************************************************************)
EXTENDS Integers, Sequences, FiniteSets, TLC

\* ------------------------------------------------------------------------
\* Bounds of the model
MaxLen == 3      \* longest numeric sequence carried by a value
MaxSteps == 2    \* the step counter of get_value saturates here
MaxObjs == 2     \* constructed objects remembered per class

Doubles == {1, 2}

\* ------------------------------------------------------------------------
\* The type registry (nameserver): every category and its parent.
Types ==
  { "VALUE", "FLOAT_VALUE", "SIMPLE_TRUTH_VALUE", "STRING_VALUE",
    "ATOM", "NODE", "LINK",
    "NUMBER_NODE", "CONCEPT_NODE", "DEFINED_SCHEMA_NODE",
    "SET_LINK", "LIST_LINK", "GET_LINK",
    "FUNCTION_LINK", "NUMERIC_FUNCTION_LINK", "PLUS_LINK", "TIMES_LINK",
    "FOREIGN_AST", "SEXPR_AST" }

Parent(t) ==
  CASE t = "FLOAT_VALUE" -> "VALUE"
    [] t = "SIMPLE_TRUTH_VALUE" -> "FLOAT_VALUE"
    [] t = "STRING_VALUE" -> "VALUE"
    [] t = "ATOM" -> "VALUE"
    [] t = "NODE" -> "ATOM"
    [] t = "LINK" -> "ATOM"
    [] t = "NUMBER_NODE" -> "NODE"
    [] t = "CONCEPT_NODE" -> "NODE"
    [] t = "DEFINED_SCHEMA_NODE" -> "NODE"
    [] t = "SET_LINK" -> "LINK"
    [] t = "LIST_LINK" -> "LINK"
    [] t = "GET_LINK" -> "LINK"
    [] t = "FUNCTION_LINK" -> "LINK"
    [] t = "NUMERIC_FUNCTION_LINK" -> "FUNCTION_LINK"
    [] t = "PLUS_LINK" -> "NUMERIC_FUNCTION_LINK"
    [] t = "TIMES_LINK" -> "NUMERIC_FUNCTION_LINK"
    [] t = "FOREIGN_AST" -> "LINK"
    [] t = "SEXPR_AST" -> "FOREIGN_AST"
    [] OTHER -> "VALUE"

RECURSIVE isA(_, _)
\* nameserver().isA(t, u): t is u or a descendant of u
isA(t, u) ==
  IF t = u THEN TRUE
  ELSE IF t = "VALUE" THEN FALSE
  ELSE isA(Parent(t), u)

\* ------------------------------------------------------------------------
\* Values
Val(t, v, o, n) == [type |-> t, vec |-> v, out |-> o, name |-> n]

\* the null pointer (ValuePtr() / nullptr)
NULL == Val("NULL", <<>>, <<>>, "")

\* the numeric sequences of the model: for every length up to MaxLen the
\* two sequences that alternate 1 and 2
Vecs ==
  { [i \in 1..k |-> ((i + s) % 2) + 1] : k \in 0..MaxLen, s \in 0..1 }

NumberNode(v) == Val("NUMBER_NODE", v, <<>>, "")
FloatValue(v) == Val("FLOAT_VALUE", v, <<>>, "")
TruthValue(v) == Val("SIMPLE_TRUTH_VALUE", v, <<>>, "")

ConceptA == Val("CONCEPT_NODE", <<>>, <<>>, "a")
SchemaD  == Val("DEFINED_SCHEMA_NODE", <<>>, <<>>, "d")
PlusE    == Val("PLUS_LINK", <<>>, <<ConceptA, ConceptA>>, "")
GetE     == Val("GET_LINK", <<>>, <<ConceptA>>, "")
StringS  == Val("STRING_VALUE", <<>>, <<>>, "s")
SetOf(o) == Val("SET_LINK", <<>>, o, "")

SetLinks ==
  { SetOf(<<>>), SetOf(<<PlusE>>), SetOf(<<NumberNode(<<1>>)>>),
    SetOf(<<PlusE, ConceptA>>) }

\* the atoms a Handle can point to
Atoms ==
  { NumberNode(v) : v \in Vecs } \cup { ConceptA, SchemaD, PlusE, GetE }
  \cup SetLinks

\* everything an execution can return (besides the null pointer)
Universe ==
  Atoms \cup { FloatValue(v) : v \in Vecs } \cup { TruthValue(v) : v \in Vecs }
  \cup { StringS }

\* Value::is_atom()
is_atom(v) == isA(v.type, "ATOM")

\* Atom::is_executable(): the executable link classes
is_executable(v) == v.type \in {"PLUS_LINK", "GET_LINK"}

\* Link::get_arity(), Link::getOutgoingAtom(i) (0-based in the code)
get_arity(v) == Len(v.out)
getOutgoingAtom(v, i) == v.out[i + 1]

\* ------------------------------------------------------------------------
\* The scalar functions handed to apply_func
Fun1 == {"neg", "inc"}
Fun2 == {"plus", "minus"}

Apply1(f, x) == IF f = "neg" THEN 0 - x ELSE x + 1
Apply2(f, x, y) == IF f = "plus" THEN x + y ELSE x - y

Min(a, b) == IF a < b THEN a ELSE b


\* ------------------------------------------------------------------------
\* State
VARIABLES
  pc,         \* position: "idle", "loop" (the while test of get_value),
              \* "ret" (get_value has returned vptr), "apply", "done"
  op,         \* the running call: "none", "unary", "binary"
  fun,        \* the scalar function passed to apply_func
  pending,    \* operands of args not yet handed to get_value
  vptr,       \* get_value: the local vptr
  orig,       \* get_value: the argument it was called with
  nsteps,     \* get_value: executions done in this call (saturating)
  evald,      \* get_value: the value executed in the last completed step
  firstEq,    \* get_value: the argument itself was executed first and
              \* the result was equal to it
  vx, vy,     \* apply_func: the resolved operands
  nres,       \* apply_func: operands resolved so far
  reduction0, \* the caller's reduction sequence when apply_func was called
  reduction,  \* the caller's reduction sequence
  result,     \* apply_func: the returned ValuePtr
  numlinks,   \* the NumericFunctionLink objects constructed
  asts,       \* the ForeignAST objects constructed
  last        \* the last constructor call and whether it threw

vars == << pc, op, fun, pending, vptr, orig, nsteps, evald, firstEq,
           vx, vy, nres, reduction0, reduction, result, numlinks, asts, last >>

gvVars == << vptr, orig, nsteps, evald, firstEq >>
ctorVars == << numlinks, asts, last >>

NoCall == [cls |-> "none", type |-> "VALUE", path |-> "none", threw |-> FALSE]

Init ==
  /\ pc = "idle" /\ op = "none" /\ fun = "none" /\ pending = <<>>
  /\ vptr = NULL /\ orig = NULL /\ nsteps = 0 /\ evald = NULL
  /\ firstEq = FALSE
  /\ vx = NULL /\ vy = NULL /\ nres = 0
  /\ reduction0 = <<>> /\ reduction = <<>> /\ result = NULL
  /\ numlinks = {} /\ asts = {} /\ last = NoCall

\* ------------------------------------------------------------------------
\* get_value

\* what DefineLink::get_definition can hand back for a DefinedSchemaNode
DefinitionBodies == { PlusE, GetE, ConceptA, NumberNode(<<2, 1>>) }

\* lines 56-59: a DefinedSchemaNode is replaced by its definition
EntryValues(v) ==
  IF v.type = "DEFINED_SCHEMA_NODE" THEN DefinitionBodies ELSE {v}

\* what h->execute(as, silent) can return: any value, or the null pointer
ExecResults == Universe \cup {NULL}

\* lines 76-81: a SetLink wrapping exactly one atom is unwrapped
Unwrap(v) ==
  IF v.type = "SET_LINK" /\ get_arity(v) = 1
  THEN getOutgoingAtom(v, 0)
  ELSE v

LoopBodyNoFixpoint(v, red) ==
  IF red = NULL THEN [ret |-> TRUE, v |-> v]
  ELSE [ret |-> FALSE, v |-> Unwrap(red)]

\* lines 65-81: the loop body once h has been executed with result red:
\* either get_value returns v (ret), or the loop goes on with v
LoopBody(v, red) ==
  IF red = NULL THEN [ret |-> TRUE, v |-> v]
  ELSE IF red = v THEN [ret |-> TRUE, v |-> v]
  ELSE [ret |-> FALSE, v |-> Unwrap(red)]

\* the call get_value(as, silent, a)
EnterGetValue(a) ==
  /\ \E d \in EntryValues(a) : vptr' = d
  /\ orig' = a
  /\ nsteps' = 0
  /\ evald' = NULL
  /\ firstEq' = FALSE
  /\ pc' = "loop"

\* the frame of get_value is gone once its result has been taken
LeaveGetValue ==
  /\ vptr' = NULL /\ orig' = NULL /\ nsteps' = 0 /\ evald' = NULL
  /\ firstEq' = FALSE

\* lines 60-82: one iteration that executes vptr
GvStep ==
  /\ pc = "loop"
  /\ is_atom(vptr) /\ is_executable(vptr)
  /\ \E red \in ExecResults :
       LET o == LoopBody(vptr, red) IN
         /\ vptr' = o.v
         /\ pc' = IF o.ret THEN "ret" ELSE "loop"
         /\ firstEq' = IF nsteps = 0 THEN (vptr = orig /\ red = vptr)
                       ELSE firstEq
  /\ evald' = vptr
  /\ nsteps' = IF nsteps < MaxSteps THEN nsteps + 1 ELSE nsteps
  /\ UNCHANGED << op, fun, pending, orig, vx, vy, nres, reduction0,
                  reduction, result, ctorVars >>

\* lines 60, 63, 83: the loop ends on a non-atom or a non-executable atom
GvExit ==
  /\ pc = "loop"
  /\ ~(is_atom(vptr) /\ is_executable(vptr))
  /\ pc' = "ret"
  /\ UNCHANGED << op, fun, pending, gvVars, vx, vy, nres, reduction0,
                  reduction, result, ctorVars >>

\* ------------------------------------------------------------------------
\* get_vector

\* get_vector(as, silent, vptr, t): t is set to the type; ok is FALSE when
\* the null pointer is returned, otherwise vec is the vector pointed to
get_vector(v) ==
  LET t == v.type
      is_fv == isA(t, "FLOAT_VALUE")
      is_nu == (t = "NUMBER_NODE")
  IN IF ~is_fv /\ ~is_nu
     THEN [t |-> t, ok |-> FALSE, vec |-> <<>>]
     ELSE [t |-> t, ok |-> TRUE, vec |-> v.vec]

\* ------------------------------------------------------------------------
\* apply_func, one argument

\* line 130: nullptr == xvec or 0 == xvec->size()
NoValues1(xv) == ~xv.ok \/ Len(xv.vec) = 0

MapFunShifted(f, xvec) ==
  [i \in 1..Len(xvec) |-> Apply1(f, xvec[IF i < Len(xvec) THEN i + 1 ELSE 1])]

\* lines 133-136: funvec for the one-argument function
MapFun(f, xvec) == [i \in 1..Len(xvec) |-> Apply1(f, xvec[i])]

\* lines 138-141
Create1(vxtype, funvec) ==
  IF vxtype = "NUMBER_NODE" THEN NumberNode(funvec) ELSE FloatValue(funvec)

\* lines 125-141: what the one-argument apply_func returns for resolved vx
UnaryResult(f, x) ==
  LET xv == get_vector(x) IN
    IF NoValues1(xv) THEN NULL
    ELSE Create1(xv.t, MapFun(f, xv.vec))

\* ------------------------------------------------------------------------
\* apply_func, two arguments

NoValues2Null(xv, yv) == ~xv.ok \/ ~yv.ok

\* lines 169-170
NoValues2(xv, yv) ==
  ~xv.ok \/ ~yv.ok \/ Len(xv.vec) = 0 \/ Len(yv.vec) = 0

PushSwapped(red, x, y) == Append(Append(red, y), x)

\* lines 172-173
PushBoth(red, x, y) == Append(Append(red, x), y)

CombineSwapped(f, xvec, yvec) ==
  IF Len(xvec) = 1
  THEN [i \in 1..Len(yvec) |-> Apply2(f, yvec[i], xvec[Len(xvec)])]
  ELSE IF Len(yvec) = 1
  THEN [i \in 1..Len(xvec) |-> Apply2(f, yvec[Len(yvec)], xvec[i])]
  ELSE [i \in 1..Min(Len(xvec), Len(yvec)) |-> Apply2(f, xvec[i], yvec[i])]

CombineNoTruncate(f, xvec, yvec) ==
  IF Len(xvec) = 1
  THEN [i \in 1..Len(yvec) |-> Apply2(f, xvec[Len(xvec)], yvec[i])]
  ELSE IF Len(yvec) = 1
  THEN [i \in 1..Len(xvec) |-> Apply2(f, xvec[i], yvec[Len(yvec)])]
  ELSE [i \in 1..Len(xvec) |->
          Apply2(f, xvec[i], yvec[IF i <= Len(yvec) THEN i ELSE Len(yvec)])]

\* lines 177-195: funvec for the two-argument function
Combine(f, xvec, yvec) ==
  IF Len(xvec) = 1
  THEN [i \in 1..Len(yvec) |-> Apply2(f, xvec[Len(xvec)], yvec[i])]
  ELSE IF Len(yvec) = 1
  THEN [i \in 1..Len(xvec) |-> Apply2(f, xvec[i], yvec[Len(yvec)])]
  ELSE [i \in 1..Min(Len(xvec), Len(yvec)) |-> Apply2(f, xvec[i], yvec[i])]

Create2Either(vxtype, vytype, funvec) ==
  IF vxtype = "NUMBER_NODE" \/ vytype = "NUMBER_NODE"
  THEN NumberNode(funvec)
  ELSE FloatValue(funvec)

\* lines 197-200
Create2(vxtype, vytype, funvec) ==
  IF vxtype = "NUMBER_NODE" /\ vytype = "NUMBER_NODE"
  THEN NumberNode(funvec)
  ELSE FloatValue(funvec)

\* ------------------------------------------------------------------------
\* The calls

\* what a caller may already hold in the reduction sequence it passes
CallerReductions == { <<>>, <<ConceptA>> }

\* lines 117-123: apply_func(as, silent, arg, fun, vx) is called and calls
\* get_value on arg
CallUnary ==
  /\ pc = "idle"
  /\ \E arg \in Atoms, f \in Fun1 :
       /\ fun' = f
       /\ EnterGetValue(arg)
  /\ op' = "unary"
  /\ pending' = <<>>
  /\ vx' = NULL /\ vy' = NULL /\ nres' = 0
  /\ reduction0' = <<>> /\ reduction' = <<>>
  /\ result' = NULL
  /\ UNCHANGED ctorVars

\* lines 152-158: apply_func(as, silent, args, fun, reduction) is called and
\* calls get_value on args[0]
CallBinary ==
  /\ pc = "idle"
  /\ \E args \in Atoms \X Atoms, f \in Fun2, r \in CallerReductions :
       /\ fun' = f
       /\ EnterGetValue(args[1])
       /\ pending' = << args[2] >>
       /\ reduction0' = r /\ reduction' = r
  /\ op' = "binary"
  /\ vx' = NULL /\ vy' = NULL /\ nres' = 0
  /\ result' = NULL
  /\ UNCHANGED ctorVars

\* lines 158-159: get_value(args[0]) has returned into vx and get_value is
\* called on args[1]
ResolvedFirst ==
  /\ pc = "ret" /\ op = "binary" /\ nres = 0
  /\ vx' = vptr
  /\ nres' = 1
  /\ EnterGetValue(Head(pending))
  /\ pending' = Tail(pending)
  /\ UNCHANGED << op, fun, vy, reduction0, reduction, result, ctorVars >>

\* line 159: get_value(args[1]) has returned into vy
ResolvedSecond ==
  /\ pc = "ret" /\ op = "binary" /\ nres = 1
  /\ vy' = vptr
  /\ nres' = 2
  /\ pc' = "apply"
  /\ LeaveGetValue
  /\ UNCHANGED << op, fun, pending, vx, reduction0, reduction,
                  result, ctorVars >>

\* line 123: get_value(arg) has returned into vx
ResolvedOnly ==
  /\ pc = "ret" /\ op = "unary"
  /\ vx' = vptr
  /\ nres' = 1
  /\ pc' = "apply"
  /\ LeaveGetValue
  /\ UNCHANGED << op, fun, pending, vy, reduction0, reduction,
                  result, ctorVars >>

\* lines 125-141
FinishUnary ==
  /\ pc = "apply" /\ op = "unary"
  /\ result' = UnaryResult(fun, vx)
  /\ pc' = "done"
  /\ UNCHANGED << op, fun, pending, gvVars, vx, vy, nres, reduction0,
                  reduction, ctorVars >>

\* lines 161-200
FinishBinary ==
  /\ pc = "apply" /\ op = "binary"
  /\ LET xv == get_vector(vx)
         yv == get_vector(vy)
     IN IF NoValues2(xv, yv)
        THEN /\ reduction' = PushBoth(reduction, vx, vy)
             /\ result' = NULL
        ELSE /\ reduction' = reduction
             /\ result' = Create2(xv.t, yv.t, Combine(fun, xv.vec, yv.vec))
  /\ pc' = "done"
  /\ UNCHANGED << op, fun, pending, gvVars, vx, vy, nres, reduction0,
                  ctorVars >>

\* the caller has taken the result; the next call can start
Idle ==
  /\ pc = "done"
  /\ pc' = "idle"
  /\ op' = "none" /\ fun' = "none"
  /\ vx' = NULL /\ vy' = NULL /\ nres' = 0
  /\ reduction0' = <<>> /\ reduction' = <<>> /\ result' = NULL
  /\ UNCHANGED << pending, gvVars, ctorVars >>

Next ==
  \/ CallUnary
  \/ CallBinary
  \/ GvStep
  \/ GvExit
  \/ ResolvedFirst
  \/ ResolvedSecond
  \/ ResolvedOnly
  \/ FinishUnary
  \/ FinishBinary
  \/ Idle

Spec == Init /\ [][Next]_vars

\* ------------------------------------------------------------------------
\* Construction of NumericFunctionLink and ForeignAST objects

\* the categories handed to the constructors: the link categories
CtorTypes == { t \in Types : isA(t, "LINK") }

\* the outgoing sets handed to the constructors
CtorOsets == { <<>>, <<ConceptA>> }

\* the literal strings handed to ForeignAST(Type, const std::string&)
CtorNames == { "a" }

Called(c, t, p, e) == [cls |-> c, type |-> t, path |-> p, threw |-> e]

InitThrowsPrivateOnly(t) == t = "NUMERIC_FUNCTION_LINK"

\* NumericFunctionLink::init, lines 41-47: whether it throws
\* InvalidParamException for the type t
InitThrows(t) ==
  \/ t = "NUMERIC_FUNCTION_LINK"
  \/ ~isA(t, "NUMERIC_FUNCTION_LINK")

\* NumericFunctionLink(const HandleSeq&& oset, Type t), lines 33-37
NewNumericFunctionLink ==
  /\ Cardinality(numlinks) < MaxObjs
  /\ \E oset \in CtorOsets, t \in CtorTypes :
       IF InitThrows(t)
       THEN /\ last' = Called("NumericFunctionLink", t, "oset", TRUE)
            /\ numlinks' = numlinks
       ELSE /\ last' = Called("NumericFunctionLink", t, "oset", FALSE)
            /\ numlinks' = numlinks \cup { Val(t, <<>>, oset, "") }
  /\ UNCHANGED << pc, op, fun, pending, gvVars, vx, vy, nres, reduction0,
                  reduction, result, asts >>

\* ForeignAST.cc lines 31 and 42: the category test of the two checking
\* constructors
NotForeign(t) == ~isA(t, "FOREIGN_AST")

\* ForeignAST(const HandleSeq&& oset, Type t), lines 28-37
NewForeignASTOset ==
  /\ Cardinality(asts) < MaxObjs
  /\ \E oset \in CtorOsets, t \in CtorTypes :
       IF NotForeign(t)
       THEN /\ last' = Called("ForeignAST", t, "oset", TRUE)
            /\ asts' = asts
       ELSE /\ last' = Called("ForeignAST", t, "oset", FALSE)
            /\ asts' = asts \cup { Val(t, <<>>, oset, "") }
  /\ UNCHANGED << pc, op, fun, pending, gvVars, vx, vy, nres, reduction0,
                  reduction, result, numlinks >>

\* ForeignAST(Type t), lines 39-48
NewForeignASTType ==
  /\ Cardinality(asts) < MaxObjs
  /\ \E t \in CtorTypes :
       IF NotForeign(t)
       THEN /\ last' = Called("ForeignAST", t, "type", TRUE)
            /\ asts' = asts
       ELSE /\ last' = Called("ForeignAST", t, "type", FALSE)
            /\ asts' = asts \cup { Val(t, <<>>, <<>>, "") }
  /\ UNCHANGED << pc, op, fun, pending, gvVars, vx, vy, nres, reduction0,
                  reduction, result, numlinks >>

\* ForeignAST(Type t, const std::string& str), lines 50-54: the name is
\* set, the category is not tested
NewForeignASTName ==
  /\ Cardinality(asts) < MaxObjs
  /\ \E t \in CtorTypes, str \in CtorNames :
       /\ last' = Called("ForeignAST", t, "name", FALSE)
       /\ asts' = asts \cup { Val(t, <<>>, <<>>, str) }
  /\ UNCHANGED << pc, op, fun, pending, gvVars, vx, vy, nres, reduction0,
                  reduction, result, numlinks >>

NextCtor ==
  \/ NewNumericFunctionLink
  \/ NewForeignASTOset
  \/ NewForeignASTType
  \/ NewForeignASTName

SpecCtor == Init /\ [][NextCtor]_vars

\* ------------------------------------------------------------------------
\* Vocabulary of the properties

\* a value of one of the two numeric-bearing flavors
NumericBearing(v) ==
  v.type \in {"NUMBER_NODE", "FLOAT_VALUE", "SIMPLE_TRUTH_VALUE"}

UnaryDone == pc = "done" /\ op = "unary"
BinaryDone == pc = "done" /\ op = "binary"

\* both resolved operands carry a non-empty numeric sequence
BothSequences ==
  /\ NumericBearing(vx) /\ Len(vx.vec) > 0
  /\ NumericBearing(vy) /\ Len(vy.vec) > 0

\* the reduction sequence received exactly vx and vy, in this order
PushedBoth == reduction = reduction0 \o << vx, vy >>

\* C1: when both operands resolve to non-empty numeric sequences and one
\* of them has length 1, the result has the length of the other and its
\* i-th element is fun(x0, y_i) for x = [x0], and fun(x_i, y0) for
\* y = [y0] with |x| > 1: the first operand is always fun's first argument.
C1_Broadcast ==
  (BinaryDone /\ BothSequences) =>
    /\ Len(vx.vec) = 1 =>
         /\ result # NULL
         /\ Len(result.vec) = Len(vy.vec)
         /\ \A i \in 1..Len(vy.vec) :
              result.vec[i] = Apply2(fun, vx.vec[1], vy.vec[i])
    /\ (Len(vy.vec) = 1 /\ Len(vx.vec) > 1) =>
         /\ result # NULL
         /\ Len(result.vec) = Len(vx.vec)
         /\ \A i \in 1..Len(vx.vec) :
              result.vec[i] = Apply2(fun, vx.vec[i], vy.vec[1])

C1_Witness ==
  /\ BinaryDone /\ BothSequences
  /\ Len(vx.vec) = 1 /\ Len(vy.vec) > 1
  /\ fun = "minus"
  /\ Len(result.vec) = Len(vy.vec)

\* C2: when both operands resolve to numeric sequences longer than 1, the
\* result has length min(|x|, |y|), its i-th element is fun(x_i, y_i), and
\* the call neither returns the null result nor touches the reduction
\* sequence.
C2_Truncate ==
  (BinaryDone /\ BothSequences /\ Len(vx.vec) > 1 /\ Len(vy.vec) > 1) =>
    /\ result # NULL
    /\ NumericBearing(result)
    /\ Len(result.vec) = Min(Len(vx.vec), Len(vy.vec))
    /\ \A i \in 1..Min(Len(vx.vec), Len(vy.vec)) :
         result.vec[i] = Apply2(fun, vx.vec[i], vy.vec[i])
    /\ reduction = reduction0

C2_Witness ==
  /\ BinaryDone /\ BothSequences
  /\ Len(vy.vec) > 1 /\ Len(vx.vec) > Len(vy.vec)
  /\ Len(result.vec) = Len(vy.vec)

\* C3: when a resolved operand of the two-argument apply_func is not
\* numeric-bearing, the call returns the null result and the reduction
\* sequence receives exactly the two resolved operands, first operand
\* first.
C3_NotNumeric ==
  (BinaryDone /\ (~NumericBearing(vx) \/ ~NumericBearing(vy))) =>
    /\ result = NULL
    /\ PushedBoth

C3_Witness ==
  /\ BinaryDone
  /\ ~NumericBearing(vx) /\ NumericBearing(vy) /\ Len(vy.vec) > 0
  /\ reduction0 # <<>>
  /\ result = NULL
  /\ PushedBoth

\* C4: when both operands resolve to non-empty numeric sequences, the
\* result is a NumberNode exactly when both resolved operands are
\* NumberNodes, and a FloatValue as soon as one operand is of the float
\* flavor.
C4_Flavor ==
  (BinaryDone /\ BothSequences) =>
    /\ result.type = "NUMBER_NODE" <=>
         (vx.type = "NUMBER_NODE" /\ vy.type = "NUMBER_NODE")
    /\ (vx.type # "NUMBER_NODE" \/ vy.type # "NUMBER_NODE") =>
         result.type = "FLOAT_VALUE"

C4_Witness ==
  /\ BinaryDone /\ BothSequences
  /\ vx.type = "NUMBER_NODE" /\ vy.type = "FLOAT_VALUE"
  /\ Len(vx.vec) > 1 /\ Len(vy.vec) > 1
  /\ result.type = "FLOAT_VALUE"

\* C5: get_value called on a value whose execution returns a result equal
\* to that value returns after exactly one execution, and returns the
\* value it was called with.
C5_FixedPoint ==
  (pc = "ret" /\ firstEq) => (nsteps = 1 /\ vptr = orig)

C5_Witness ==
  /\ pc = "ret" /\ firstEq
  /\ is_executable(orig)
  /\ nsteps = 1 /\ vptr = orig

\* C6: a NumericFunctionLink constructed with a category outside the
\* NUMERIC_FUNCTION_LINK family throws, and no NumericFunctionLink object
\* ever has a category outside that family.
C6_NumericCategory ==
  /\ (last.cls = "NumericFunctionLink"
        /\ ~isA(last.type, "NUMERIC_FUNCTION_LINK")) => last.threw
  /\ \A o \in numlinks : isA(o.type, "NUMERIC_FUNCTION_LINK")

C6_Witness ==
  /\ last.cls = "NumericFunctionLink"
  /\ ~isA(last.type, "NUMERIC_FUNCTION_LINK")
  /\ last.threw
  /\ numlinks # {}

\* C7: every ForeignAST constructor throws when its category is not a
\* FOREIGN_AST subtype, so that no ForeignAST object has a category outside
\* the family.
C7_ForeignCategory ==
  /\ (last.cls = "ForeignAST" /\ ~isA(last.type, "FOREIGN_AST")) =>
       last.threw
  /\ \A o \in asts : isA(o.type, "FOREIGN_AST")

\* C8 as stated: the one-argument apply_func returns the null result for
\* a resolved argument that is not numeric-bearing, and otherwise a
\* sequence of the same length with i-th element fun(x_i), in the flavor of
\* the resolved argument.
C8_UnaryAsStated ==
  UnaryDone =>
    IF ~NumericBearing(vx)
    THEN result = NULL
    ELSE /\ result # NULL
         /\ Len(result.vec) = Len(vx.vec)
         /\ \A i \in 1..Len(vx.vec) : result.vec[i] = Apply1(fun, vx.vec[i])
         /\ result.type =
              (IF vx.type = "NUMBER_NODE" THEN "NUMBER_NODE" ELSE "FLOAT_VALUE")

\* C8 amended: the one-argument apply_func returns the null result for a
\* resolved argument that is not numeric-bearing or whose sequence is
\* empty, and otherwise a sequence of the same length with i-th element
\* fun(x_i), in the flavor of the resolved argument.
C8_Unary ==
  UnaryDone =>
    IF ~NumericBearing(vx) \/ Len(vx.vec) = 0
    THEN result = NULL
    ELSE /\ result # NULL
         /\ Len(result.vec) = Len(vx.vec)
         /\ \A i \in 1..Len(vx.vec) : result.vec[i] = Apply1(fun, vx.vec[i])
         /\ result.type =
              (IF vx.type = "NUMBER_NODE" THEN "NUMBER_NODE" ELSE "FLOAT_VALUE")

C8_Witness ==
  /\ UnaryDone
  /\ vx.type = "SIMPLE_TRUTH_VALUE" /\ Len(vx.vec) > 1
  /\ result.type = "FLOAT_VALUE"
  /\ Len(result.vec) = Len(vx.vec)

\* C9: whenever get_value goes on to a further execution, the value it
\* carries into that execution differs from the value it executed in the
\* step just completed, also when that value was unwrapped from a
\* single-element SetLink.
C9_CarriedDiffers ==
  (pc = "loop" /\ nsteps > 0 /\ is_atom(vptr) /\ is_executable(vptr)) =>
    vptr # evald

\* C10: an operand that resolves to a numeric-bearing value with an empty
\* sequence makes the one-argument apply_func return the null result and
\* the two-argument apply_func return the null result and append both
\* resolved operands to the reduction sequence, whatever the other operand
\* is; neither function ever returns an empty numeric result.
C10_Empty ==
  /\ (UnaryDone /\ NumericBearing(vx) /\ Len(vx.vec) = 0) => result = NULL
  /\ (BinaryDone /\ ( (NumericBearing(vx) /\ Len(vx.vec) = 0)
                      \/ (NumericBearing(vy) /\ Len(vy.vec) = 0) )) =>
       (result = NULL /\ PushedBoth)
  /\ (pc = "done" /\ result # NULL) => Len(result.vec) > 0

C10_Witness ==
  /\ BinaryDone
  /\ NumericBearing(vx) /\ Len(vx.vec) = 0
  /\ NumericBearing(vy) /\ Len(vy.vec) > 1
  /\ result = NULL
  /\ PushedBoth

=============================================================================
